---- MODULE Spec2Model ----
(***************************************************************************)
(* A model of src/main.py: a script that configures the agents framework   *)
(* (two delegate agents, one custom hand-off, one triage agent), runs one  *)
(* blocking Runner.run_sync call and prints two result lines.              *)
(*                                                                         *)
(* The script is modelled statement by statement: pc is the line of the    *)
(* next statement.  The library calls the script makes (load_dotenv,       *)
(* rich.print, Runner.run_sync) are modelled by what they do to the        *)
(* script's state: the environment, the console and the run result.        *)
(***************************************************************************)
EXTENDS Integers, Sequences, FiniteSets, TLC

\* Longest text (in tokens) the model lets the LLM produce.
MaxTextLen == 2

\* src/main.py:141
max_turns == 2

None == <<>>
Some(x) == <<x>>

(***************************************************************************)
(* Texts.  A text is a sequence of tokens: plain characters, an opening    *)
(* console-markup tag, an explicit closing tag and the implicit closing    *)
(* tag.  These are the texts the LLM can produce (a final answer, the      *)
(* arguments of a tool call).                                              *)
(***************************************************************************)
Tokens == {"x", "[b]", "[/b]", "[/]"}

Texts == UNION {[1..n -> Tokens] : n \in 0..MaxTextLen}

Plain == <<"x">>

\* The values an environment variable or a .env entry can have:
\* absent, the empty string, a key.
EnvValues == {None, Some(""), Some("key")}

(***************************************************************************)
(* rich.print: every str object it is given is rendered as console markup  *)
(* before anything is written.  An opening tag is pushed on the style      *)
(* stack; "[/b]" pops the nearest open "b" and "[/]" pops the top; a       *)
(* closing tag with nothing to close raises MarkupError.                   *)
(***************************************************************************)
TagName(tok) == IF tok = "[b]" \/ tok = "[/b]" THEN "b" ELSE ""

LastIndexOf(stack, name) ==
    LET hits == {i \in 1..Len(stack) : stack[i] = name}
    IN  IF hits = {} THEN 0 ELSE CHOOSE i \in hits : \A j \in hits : j <= i

RemoveAt(stack, k) ==
    [i \in 1..(Len(stack) - 1) |-> IF i < k THEN stack[i] ELSE stack[i + 1]]

\* TRUE iff rendering text[i..] with these open styles raises no MarkupError.
RECURSIVE render_markup(_, _, _)
render_markup(text, i, stack) ==
    IF i > Len(text) THEN TRUE
    ELSE IF text[i] = "x" THEN render_markup(text, i + 1, stack)
    ELSE IF text[i] = "[b]"
         THEN render_markup(text, i + 1, Append(stack, TagName(text[i])))
    ELSE IF text[i] = "[/b]"
         THEN LET k == LastIndexOf(stack, TagName(text[i]))
              IN  IF k = 0 THEN FALSE
                  ELSE render_markup(text, i + 1, RemoveAt(stack, k))
    ELSE \* "[/]"
         IF stack = <<>> THEN FALSE
         ELSE render_markup(text, i + 1, SubSeq(stack, 1, Len(stack) - 1))

\* rich.print writes its line iff every object renders.
rich_print_ok(objects) ==
    \A i \in 1..Len(objects) : render_markup(objects[i], 1, <<>>)

(***************************************************************************)
(* Hand-off payloads: the JSON object of a tool call's arguments, a        *)
(* function from property names to string values.  The framework hands    *)
(* the callback the JSON text of the arguments.                            *)
(***************************************************************************)
PropertyNames == {"input", "extra"}

Payloads ==
    UNION {
        {p \in [K -> Texts] : \A k \in K : k = "input" \/ p[k] = Plain}
        : K \in SUBSET PropertyNames}

NoArgs == [k \in {} |-> Plain]

\* The JSON text of a payload: punctuation and keys are plain characters, the
\* string values are copied.
json_dumps(p) ==
    Plain
    \o (IF "input" \in DOMAIN p THEN Plain \o p["input"] ELSE <<>>)
    \o (IF "extra" \in DOMAIN p THEN Plain \o p["extra"] ELSE <<>>)
    \o Plain

(***************************************************************************)
(* The hand-off input schema (lines 82-87).                                *)
(***************************************************************************)
\* Model_refund.model_json_schema(): one required string field, and no
\* additionalProperties key.
model_json_schema ==
    [type |-> "object",
     title |-> "Model_refund",
     properties |-> {[name |-> "input", type |-> "string"]},
     required |-> {"input"},
     additionalProperties |-> None]

AdditionalPropertiesAllowed == TRUE

\* The value line 87 stores under "additionalProperties".
AdditionalPropertiesValue == FALSE

\* JSON-schema validation of an object whose values are strings: an absent
\* additionalProperties key allows any further property.
schema_accepts(schema, p) ==
    /\ schema.required \subseteq DOMAIN p
    /\ \A k \in DOMAIN p :
          \/ \E f \in schema.properties : f.name = k /\ f.type = "string"
          \/ /\ ~(\E f \in schema.properties : f.name = k)
             /\ (schema.additionalProperties = None
                 \/ schema.additionalProperties = Some(TRUE))

(***************************************************************************)
(* load_dotenv() (line 21, override left at its default): a variable of    *)
(* the .env file is copied into the environment unless the environment     *)
(* already has it.                                                         *)
(***************************************************************************)
load_dotenv(environ, file) ==
    IF environ = None THEN file ELSE environ

\* `not gemini_api_key` (line 31): None and the empty string are falsy.
Falsy(v) == v = None \/ v = Some("")

(***************************************************************************)
(* The script's statements, by line, in the order Python executes them.    *)
(***************************************************************************)
Program == <<21, 24, 27, 30, 31, 39, 49, 59, 71, 82, 86, 87, 94, 103,
             111, 126, 138, 145, 146>>

Eof == Program[Len(Program)] + 1

IndexOf(l) == CHOOSE i \in 1..Len(Program) : Program[i] = l

\* A script that builds the model handle before the client it needs.
NextStmtSwapped(l) ==
    IF l = 31 THEN 49
    ELSE IF l = 49 THEN 39
    ELSE IF l = 39 THEN 59
    ELSE IF IndexOf(l) = Len(Program) THEN Eof ELSE Program[IndexOf(l) + 1]

\* Straight-line code: the statement after l.
NextStmt(l) ==
    IF IndexOf(l) = Len(Program) THEN Eof ELSE Program[IndexOf(l) + 1]

(***************************************************************************)
(* State.                                                                  *)
(***************************************************************************)
VARIABLES
    pc,                   \* line of the next statement; Eof when the script ended
    exc,                  \* the unhandled exception that ended the script, if any
    steps,                \* history: the statements executed, in order
    startEnv,             \* history: GEMINI_API_KEY in the environment at start
    os_environ,           \* GEMINI_API_KEY in os.environ
    dotenv_file,          \* GEMINI_API_KEY in the .env file
    logging_verbose,      \* set by enable_verbose_stdout_logging()
    tracing_disabled,     \* set by set_tracing_disabled(disabled=True)
    gemini_api_key,
    external_client,
    model,
    billing_agent,
    refund_agent,
    defined,              \* the class and functions defined so far
    my_schema,
    refund_agent_handoff,
    main_agent,
    built,                \* history: how often each object was constructed
    runCalls,             \* history: how often Runner.run_sync was called
    runStatus,            \* "idle", "active", "returned" or "raised"
    current_turn,
    current_agent,
    result,
    invocations,          \* history: the hand-off callbacks invoked
    trail,                \* history: the agents that were active, in order
    stdout                \* the lines the script's own print calls wrote

envVars == <<startEnv, os_environ, dotenv_file>>
cfgVars == <<logging_verbose, tracing_disabled>>
objVars == <<gemini_api_key, external_client, model, billing_agent, refund_agent,
             defined, my_schema, refund_agent_handoff, main_agent, built>>
runVars == <<runCalls, runStatus, current_turn, current_agent, result,
             invocations, trail>>
vars == <<pc, exc, steps, envVars, cfgVars, objVars, runVars, stdout>>

ObjectNames == {"external_client", "model", "billing_agent", "refund_agent",
                "my_schema", "refund_agent_handoff", "main_agent"}

Init ==
    /\ pc = Program[1]
    /\ exc = None
    /\ steps = <<>>
    /\ startEnv \in EnvValues
    /\ os_environ = startEnv
    /\ dotenv_file \in EnvValues
    /\ logging_verbose = FALSE
    /\ tracing_disabled = FALSE
    /\ gemini_api_key = None
    /\ external_client = None
    /\ model = None
    /\ billing_agent = None
    /\ refund_agent = None
    /\ defined = {}
    /\ my_schema = None
    /\ refund_agent_handoff = None
    /\ main_agent = None
    /\ built = [n \in ObjectNames |-> 0]
    /\ runCalls = 0
    /\ runStatus = "idle"
    /\ current_turn = 0
    /\ current_agent = None
    /\ result = None
    /\ invocations = <<>>
    /\ trail = <<>>
    /\ stdout = <<>>

\* Statement l is the next one and nothing has ended the script.
At(l) == pc = l /\ exc = None

\* Statement l runs to completion and control falls through to the next.
Done(l) == steps' = Append(steps, l) /\ pc' = NextStmt(l) /\ exc' = exc

Built(n) == [built EXCEPT ![n] = @ + 1]

(***************************************************************************)
(* Lines 21-32: credentials.                                               *)
(***************************************************************************)
LoadDotenv ==
    /\ At(21)
    /\ os_environ' = load_dotenv(os_environ, dotenv_file)
    /\ Done(21)
    /\ UNCHANGED <<startEnv, dotenv_file, cfgVars, objVars, runVars, stdout>>

EnableVerboseLogging ==
    /\ At(24)
    /\ logging_verbose' = TRUE
    /\ Done(24)
    /\ UNCHANGED <<envVars, tracing_disabled, objVars, runVars, stdout>>

SetTracingDisabled ==
    /\ At(27)
    /\ tracing_disabled' = TRUE
    /\ Done(27)
    /\ UNCHANGED <<envVars, logging_verbose, objVars, runVars, stdout>>

GetEnv ==
    /\ At(30)
    /\ gemini_api_key' = os_environ
    /\ Done(30)
    /\ UNCHANGED <<envVars, cfgVars, external_client, model, billing_agent,
                   refund_agent, defined, my_schema, refund_agent_handoff,
                   main_agent, built, runVars, stdout>>

\* A check that only looks for None lets the empty key through.
KeyIsNone(v) == v = None

\* The condition of line 31.
KeyMissing(v) == Falsy(v)

CheckKey ==
    /\ At(31)
    /\ steps' = Append(steps, 31)
    /\ IF KeyMissing(gemini_api_key)
       THEN exc' = Some("Exception") /\ pc' = pc
       ELSE exc' = exc /\ pc' = NextStmt(31)
    /\ UNCHANGED <<envVars, cfgVars, objVars, runVars, stdout>>

(***************************************************************************)
(* Lines 39-131: the client, the model handle, the agents, the hand-off.   *)
(***************************************************************************)
ExternalClientValue ==
    [api_key |-> gemini_api_key,
     base_url |-> "https://generativelanguage.googleapis.com/v1beta/openai/"]

ConstructClient ==
    /\ At(39)
    /\ external_client' = Some(ExternalClientValue)
    /\ built' = Built("external_client")
    /\ Done(39)
    /\ UNCHANGED <<envVars, cfgVars, gemini_api_key, model, billing_agent,
                   refund_agent, defined, my_schema, refund_agent_handoff,
                   main_agent, runVars, stdout>>

ModelValue ==
    [model |-> "gemini-2.0-flash", openai_client |-> external_client]

ConstructModel ==
    /\ At(49)
    /\ model' = Some(ModelValue)
    /\ built' = Built("model")
    /\ Done(49)
    /\ UNCHANGED <<envVars, cfgVars, gemini_api_key, external_client,
                   billing_agent, refund_agent, defined, my_schema,
                   refund_agent_handoff, main_agent, runVars, stdout>>

\* Agent(...) without handoffs= gets the empty list.
BillingAgentValue ==
    [name |-> "billing_agent",
     instructions |-> "You handle all billing-related inquiries. Provide clear and concise information regarding billing issues.",
     model |-> "model",
     handoff_description |-> Some("You support the user in billing issues."),
     handoffs |-> <<>>]

ConstructBillingAgent ==
    /\ At(59)
    /\ billing_agent' = Some(BillingAgentValue)
    /\ built' = Built("billing_agent")
    /\ Done(59)
    /\ UNCHANGED <<envVars, cfgVars, gemini_api_key, external_client, model,
                   refund_agent, defined, my_schema, refund_agent_handoff,
                   main_agent, runVars, stdout>>

\* A delegate that can hand the exchange back.
RefundAgentBackToMain ==
    [name |-> "refund_agent",
     instructions |-> "You handle all refund-related processes. Assist users in processing refunds efficiently.",
     model |-> "model",
     handoff_description |-> None,
     handoffs |-> <<"main_agent">>]

RefundAgentValue ==
    [name |-> "refund_agent",
     instructions |-> "You handle all refund-related processes. Assist users in processing refunds efficiently.",
     model |-> "model",
     handoff_description |-> None,
     handoffs |-> <<>>]

ConstructRefundAgent ==
    /\ At(71)
    /\ refund_agent' = Some(RefundAgentValue)
    /\ built' = Built("refund_agent")
    /\ Done(71)
    /\ UNCHANGED <<envVars, cfgVars, gemini_api_key, external_client, model,
                   billing_agent, defined, my_schema, refund_agent_handoff,
                   main_agent, runVars, stdout>>

DefineModelRefund ==
    /\ At(82)
    /\ defined' = defined \cup {"Model_refund"}
    /\ Done(82)
    /\ UNCHANGED <<envVars, cfgVars, gemini_api_key, external_client, model,
                   billing_agent, refund_agent, my_schema, refund_agent_handoff,
                   main_agent, built, runVars, stdout>>

BuildSchema ==
    /\ At(86)
    /\ "Model_refund" \in defined
    /\ my_schema' = Some(model_json_schema)
    /\ built' = Built("my_schema")
    /\ Done(86)
    /\ UNCHANGED <<envVars, cfgVars, gemini_api_key, external_client, model,
                   billing_agent, refund_agent, defined, refund_agent_handoff,
                   main_agent, runVars, stdout>>

SetAdditionalProperties ==
    /\ At(87)
    /\ my_schema' = Some([my_schema[1] EXCEPT
                            !.additionalProperties = Some(AdditionalPropertiesValue)])
    /\ Done(87)
    /\ UNCHANGED <<envVars, cfgVars, gemini_api_key, external_client, model,
                   billing_agent, refund_agent, defined, refund_agent_handoff,
                   main_agent, built, runVars, stdout>>

DefineInvokeFunction ==
    /\ At(94)
    /\ defined' = defined \cup {"my_invoke_function"}
    /\ Done(94)
    /\ UNCHANGED <<envVars, cfgVars, gemini_api_key, external_client, model,
                   billing_agent, refund_agent, my_schema, refund_agent_handoff,
                   main_agent, built, runVars, stdout>>

DefineEnableFunc ==
    /\ At(103)
    /\ defined' = defined \cup {"my_enable_func"}
    /\ Done(103)
    /\ UNCHANGED <<envVars, cfgVars, gemini_api_key, external_client, model,
                   billing_agent, refund_agent, my_schema, refund_agent_handoff,
                   main_agent, built, runVars, stdout>>

\* The Handoff keeps a reference to the my_schema dict and to the two functions.
RefundHandoffValue ==
    [agent_name |-> "refund_agent",
     tool_name |-> "refund_agent",
     tool_description |-> "You provide support to user on refund process.",
     input_json_schema |-> "my_schema",
     on_invoke_handoff |-> "my_invoke_function",
     strict_json_schema |-> TRUE,
     is_enabled |-> "my_enable_func"]

ConstructHandoff ==
    /\ At(111)
    /\ {"my_invoke_function", "my_enable_func"} \subseteq defined
    /\ my_schema # None
    /\ refund_agent_handoff' = Some(RefundHandoffValue)
    /\ built' = Built("refund_agent_handoff")
    /\ Done(111)
    /\ UNCHANGED <<envVars, cfgVars, gemini_api_key, external_client, model,
                   billing_agent, refund_agent, defined, my_schema, main_agent,
                   runVars, stdout>>

\* A triage agent that lost its custom hand-off.
MainAgentWithoutRefund ==
    [name |-> "main_agent",
     instructions |-> "You always delegate tasks to the appropriate agent.",
     model |-> "model",
     handoff_description |-> None,
     handoffs |-> <<"billing_agent">>]

MainAgentValue ==
    [name |-> "main_agent",
     instructions |-> "You always delegate tasks to the appropriate agent.",
     model |-> "model",
     handoff_description |-> None,
     handoffs |-> <<"billing_agent", "refund_agent_handoff">>]

ConstructMainAgent ==
    /\ At(126)
    /\ billing_agent # None /\ refund_agent_handoff # None
    /\ main_agent' = Some(MainAgentValue)
    /\ built' = Built("main_agent")
    /\ Done(126)
    /\ UNCHANGED <<envVars, cfgVars, gemini_api_key, external_client, model,
                   billing_agent, refund_agent, defined, my_schema,
                   refund_agent_handoff, runVars, stdout>>

(***************************************************************************)
(* Lines 94-104: the two callbacks.                                        *)
(***************************************************************************)
\* The run context the framework passes: the number of model calls so far.
Contexts == 0..max_turns

AgentNames == {"main_agent", "billing_agent", "refund_agent"}

\* A stub with a second print left in.
my_invoke_function_twice(ctx, input) ==
    [raises |-> ~rich_print_ok(<<Plain, input>>),
     prints |-> <<input, input>>,
     returns |-> "refund_agent"]

\* Lines 94-96: print the label and the input, then return refund_agent.
\* When rich.print raises, nothing is written and nothing is returned.
my_invoke_function(ctx, input) ==
    [raises |-> ~rich_print_ok(<<Plain, input>>),
     prints |-> <<input>>,
     returns |-> "refund_agent"]

\* A predicate that gates the hand-off off once the first model call was made.
my_enable_func_first_turn(ctx, agent) == ctx = 0

\* Lines 103-104.
my_enable_func(ctx, agent) == TRUE

(***************************************************************************)
(* Lines 138-142: Runner.run_sync(main_agent, input=..., max_turns=2).     *)
(* The run loop is the framework's: each turn counts against max_turns,    *)
(* calls the model for the current agent and acts on what it answers: a    *)
(* message is the final output; a call of one of the agent's enabled       *)
(* hand-off tools invokes that hand-off's on_invoke_handoff with the JSON  *)
(* text of the arguments and makes the agent it returns the current one;   *)
(* a call of a tool the agent does not have is a ModelBehaviorError.       *)
(***************************************************************************)
AgentObj(ref) ==
    IF ref = "main_agent" THEN main_agent[1]
    ELSE IF ref = "billing_agent" THEN billing_agent[1]
    ELSE refund_agent[1]

\* The hand-off the framework makes of an Agent listed in handoffs=.
DefaultHandoff(ref) ==
    [agent_name |-> ref,
     tool_name |-> IF ref = "billing_agent" THEN "transfer_to_billing_agent"
                   ELSE IF ref = "refund_agent" THEN "transfer_to_refund_agent"
                   ELSE "transfer_to_main_agent",
     tool_description |-> "",
     input_json_schema |-> "",
     on_invoke_handoff |-> "default",
     strict_json_schema |-> TRUE,
     is_enabled |-> "always"]

HandoffObj(ref) ==
    IF ref = "refund_agent_handoff" THEN refund_agent_handoff[1]
    ELSE DefaultHandoff(ref)

IsEnabled(h, ctx, agent) ==
    IF h.is_enabled = "my_enable_func" THEN my_enable_func(ctx, agent) ELSE TRUE

\* The hand-offs of the agent that the model is offered as tools.
EnabledHandoffs(agent, ctx) ==
    LET hs == AgentObj(agent).handoffs
    IN  {h \in {HandoffObj(hs[i]) : i \in 1..Len(hs)} : IsEnabled(h, ctx, agent)}

\* The schema a hand-off was given: the dict my_schema itself, not a copy.
InputSchemaOf(h) ==
    IF h.input_json_schema = "my_schema" THEN my_schema ELSE None

ToolNames == {"refund_agent", "transfer_to_billing_agent",
              "transfer_to_refund_agent", "transfer_to_main_agent"}

\* What one model call can come back with.
Responses ==
    {[kind |-> "message", text |-> t, tool |-> "", args |-> NoArgs] : t \in Texts}
    \cup {[kind |-> "tool_call", text |-> <<>>, tool |-> "refund_agent", args |-> p]
            : p \in Payloads}
    \cup {[kind |-> "tool_call", text |-> <<>>, tool |-> tn, args |-> NoArgs]
            : tn \in ToolNames \ {"refund_agent"}}
    \cup {[kind |-> "api_error", text |-> <<>>, tool |-> "", args |-> NoArgs]}

RunSync ==
    /\ At(138)
    /\ runStatus = "idle"
    /\ main_agent # None
    /\ steps' = Append(steps, 138)
    /\ runCalls' = runCalls + 1
    /\ runStatus' = "active"
    /\ current_turn' = 0
    /\ current_agent' = Some("main_agent")
    /\ trail' = <<"main_agent">>
    /\ UNCHANGED <<pc, exc, envVars, cfgVars, objVars, result, invocations, stdout>>

\* A script that catches the failure and calls run_sync again.
RunFailureRetried(e) == [exc |-> None, status |-> "idle"]

\* Nothing around run_sync catches: the exception ends the script at line 138.
RunFailure(e) == [exc |-> Some(e), status |-> "raised"]

Fails(e) ==
    /\ exc' = RunFailure(e).exc
    /\ runStatus' = RunFailure(e).status
    /\ pc' = pc
    /\ UNCHANGED <<current_agent, result, trail, stdout>>

FinalOutput(text) ==
    /\ result' = Some([final_output |-> text, last_agent |-> current_agent[1]])
    /\ runStatus' = "returned"
    /\ pc' = NextStmt(138)
    /\ UNCHANGED <<exc, current_agent, invocations, trail, stdout>>

InvokeHandoff(h, ctx, args) ==
    IF h.on_invoke_handoff = "my_invoke_function"
    THEN LET r == my_invoke_function(ctx, json_dumps(args))
         IN  /\ invocations' = Append(invocations,
                    [fn |-> "my_invoke_function", args |-> args,
                     raised |-> r.raises,
                     returned |-> IF r.raises THEN "" ELSE r.returns])
             /\ IF r.raises
                THEN Fails("MarkupError")
                ELSE /\ stdout' = stdout \o
                            [i \in 1..Len(r.prints) |->
                                [line |-> 95, text |-> r.prints[i], agent |-> ""]]
                     /\ current_agent' = Some(r.returns)
                     /\ trail' = Append(trail, r.returns)
                     /\ UNCHANGED <<pc, exc, runStatus, result>>
    ELSE /\ invocations' = Append(invocations,
                [fn |-> "default", args |-> args, raised |-> FALSE,
                 returned |-> h.agent_name])
         /\ current_agent' = Some(h.agent_name)
         /\ trail' = Append(trail, h.agent_name)
         /\ UNCHANGED <<pc, exc, runStatus, result, stdout>>

RunnerTurn ==
    /\ At(138)
    /\ runStatus = "active"
    /\ current_turn' = current_turn + 1
    /\ \E response \in Responses :
          LET agent == current_agent[1]
              ctx == current_turn
              hs == {h \in EnabledHandoffs(agent, ctx) : h.tool_name = response.tool}
          IN  IF current_turn + 1 > max_turns
              THEN Fails("MaxTurnsExceeded") /\ UNCHANGED invocations
              ELSE IF response.kind = "api_error"
              THEN Fails("APIConnectionError") /\ UNCHANGED invocations
              ELSE IF response.kind = "message"
              THEN FinalOutput(response.text)
              ELSE IF hs = {}
              THEN Fails("ModelBehaviorError") /\ UNCHANGED invocations
              ELSE InvokeHandoff(CHOOSE h \in hs : TRUE, ctx, response.args)
    /\ UNCHANGED <<steps, envVars, cfgVars, objVars, runCalls>>

(***************************************************************************)
(* Lines 145-146: the two result lines.                                    *)
(***************************************************************************)
PrintFinalOutput ==
    /\ At(145)
    /\ steps' = Append(steps, 145)
    /\ IF rich_print_ok(<<Plain, result[1].final_output>>)
       THEN /\ stdout' = Append(stdout,
                   [line |-> 145, text |-> result[1].final_output, agent |-> ""])
            /\ pc' = NextStmt(145)
            /\ exc' = exc
       ELSE /\ exc' = Some("MarkupError")
            /\ pc' = pc
            /\ stdout' = stdout
    /\ UNCHANGED <<envVars, cfgVars, objVars, runVars>>

PrintLastAgent ==
    /\ At(146)
    /\ stdout' = Append(stdout,
           [line |-> 146, text |-> <<>>,
            agent |-> AgentObj(result[1].last_agent).name])
    /\ Done(146)
    /\ UNCHANGED <<envVars, cfgVars, objVars, runVars>>

Next ==
    \/ LoadDotenv
    \/ EnableVerboseLogging
    \/ SetTracingDisabled
    \/ GetEnv
    \/ CheckKey
    \/ ConstructClient
    \/ ConstructModel
    \/ ConstructBillingAgent
    \/ ConstructRefundAgent
    \/ DefineModelRefund
    \/ BuildSchema
    \/ SetAdditionalProperties
    \/ DefineInvokeFunction
    \/ DefineEnableFunc
    \/ ConstructHandoff
    \/ ConstructMainAgent
    \/ RunSync
    \/ RunnerTurn
    \/ PrintFinalOutput
    \/ PrintLastAgent

Spec == Init /\ [][Next]_vars

(***************************************************************************)
(* Properties.                                                             *)
(***************************************************************************)
Executed(l) == \E i \in 1..Len(steps) : steps[i] = l

Ended == pc = Eof \/ exc # None

NothingBuilt ==
    /\ external_client = None
    /\ model = None
    /\ billing_agent = None /\ refund_agent = None /\ main_agent = None
    /\ refund_agent_handoff = None
    /\ \A n \in ObjectNames : built[n] = 0
    /\ runCalls = 0 /\ runStatus = "idle"
    /\ stdout = <<>>

AbortedAtCredentialCheck ==
    exc = Some("Exception") /\ pc = 31 /\ NothingBuilt

\* C1 as stated: whenever GEMINI_API_KEY is unset in the environment when the
\* script starts, the credential check aborts the script before the client, the
\* model handle or any agent is built, before run_sync and before any print.
C1_UnsetAtStartAborts ==
    (startEnv = None /\ Executed(31)) => AbortedAtCredentialCheck

\* C1 amended: whenever GEMINI_API_KEY is unset or empty once load_dotenv() has
\* run, the credential check aborts the script before the client, the model
\* handle or any agent is built, before run_sync and before any print.
C1_MissingAfterDotenvAborts ==
    (Executed(31) /\ Falsy(os_environ)) => AbortedAtCredentialCheck

C1_Witness ==
    /\ Executed(31) /\ Falsy(os_environ)
    /\ startEnv = None /\ dotenv_file = Some("")
    /\ exc = Some("Exception")

\* C2: every invocation of my_invoke_function, whatever its context and input,
\* returns refund_agent and does not raise.
C2_InvokeAlwaysReturnsRefundAgent ==
    \A i \in 1..Len(invocations) :
        invocations[i].fn = "my_invoke_function" =>
            ~invocations[i].raised /\ invocations[i].returned = "refund_agent"

\* C3: once defined, my_enable_func is true of every context and agent, and
\* whenever main_agent is the active agent of the run its refund hand-off is
\* among the hand-offs offered, in every context.
C3_RefundHandoffAlwaysEnabled ==
    /\ "my_enable_func" \in defined =>
          \A ctx \in Contexts : \A a \in AgentNames : my_enable_func(ctx, a)
    /\ (runStatus = "active" /\ current_agent = Some("main_agent")) =>
          \A ctx \in Contexts :
             \E h \in EnabledHandoffs("main_agent", ctx) :
                h.tool_name = "refund_agent" /\ h.is_enabled = "my_enable_func"

C3_Witness ==
    /\ runStatus = "active" /\ current_agent = Some("main_agent")
    /\ refund_agent_handoff[1] \in EnabledHandoffs("main_agent", current_turn)

ResultLines == SelectSeq(stdout, LAMBDA r : r.line = 145 \/ r.line = 146)

\* C5: when run_sync returned normally and the script has ended, the result
\* lines are the final output and then the name of the last agent.
C5_TwoResultLinesInOrder ==
    (runStatus = "returned" /\ Ended) =>
        /\ Len(ResultLines) = 2
        /\ ResultLines[1].line = 145
        /\ ResultLines[1].text = result[1].final_output
        /\ ResultLines[2].line = 146
        /\ ResultLines[2].agent = result[1].last_agent

\* C6: the statements executed are always a prefix of the script's one order
\* (credentials, client, model handle, agents and hand-off, run, prints); a
\* statement has started only when what precedes it has completed.
C6_LinearOrder ==
    /\ Len(steps) <= Len(Program)
    /\ \A i \in 1..Len(steps) : steps[i] = Program[i]
    /\ Executed(39) => ~Falsy(gemini_api_key)
    /\ Executed(49) => external_client # None
    /\ Executed(59) => model # None
    /\ Executed(126) => billing_agent # None /\ refund_agent # None
                        /\ refund_agent_handoff # None
    /\ Executed(138) => main_agent # None
    /\ Executed(145) => runStatus = "returned" /\ result # None
    /\ Executed(146) => \E i \in 1..Len(stdout) : stdout[i].line = 145
    /\ (pc = Eof) => steps = Program

C6_Witness == pc = Eof /\ steps = Program /\ exc = None

RunFailures ==
    {"MaxTurnsExceeded", "APIConnectionError", "ModelBehaviorError", "MarkupError"}

\* C7: run_sync is called at most once, and exactly once in an execution that
\* reaches it; a failure raised inside the run ends the script at line 138
\* with that exception, and neither result line is printed.
C7_RunFailurePropagates ==
    /\ runCalls <= 1
    /\ Executed(138) => runCalls = 1
    /\ runStatus = "raised" =>
          /\ \E e \in RunFailures : exc = Some(e)
          /\ pc = 138
          /\ result = None
          /\ ResultLines = <<>>
          /\ ~Executed(145) /\ ~Executed(146)

C7_Witness ==
    /\ runStatus = "raised" /\ exc = Some("ModelBehaviorError")
    /\ runCalls = 1 /\ current_turn = 2

AgentsAsConstructed ==
    /\ \A n \in {"billing_agent", "refund_agent", "main_agent"} : built[n] <= 1
    /\ billing_agent # None =>
          /\ built["billing_agent"] = 1
          /\ billing_agent[1].name = "billing_agent"
          /\ billing_agent[1].handoffs = <<>>
    /\ refund_agent # None =>
          /\ built["refund_agent"] = 1
          /\ refund_agent[1].name = "refund_agent"
          /\ refund_agent[1].handoffs = <<>>
    /\ main_agent # None =>
          /\ built["main_agent"] = 1
          /\ main_agent[1].name = "main_agent"
          /\ main_agent[1].handoffs = <<"billing_agent", "refund_agent_handoff">>

AgentsKept ==
    /\ billing_agent # None => billing_agent' = billing_agent
    /\ refund_agent # None => refund_agent' = refund_agent
    /\ main_agent # None => main_agent' = main_agent

\* C8: each agent descriptor is constructed once, with the delegates the script
\* gives it, and no step changes a descriptor once it is constructed.
C8_AgentsImmutable == [](AgentsAsConstructed) /\ [][AgentsKept]_vars

C8_Witness ==
    /\ pc = Eof
    /\ \E i \in 1..Len(invocations) : invocations[i].fn = "my_invoke_function"
    /\ main_agent = Some(MainAgentValue)
    /\ billing_agent # None /\ refund_agent # None

\* C9 as stated: an execution that completes normally has printed exactly two
\* lines, whichever path the exchange took.
C9_ExactlyTwoLines == (pc = Eof) => Len(stdout) = 2

CallbackPrints == SelectSeq(stdout, LAMBDA r : r.line = 95)

CallbackRuns ==
    SelectSeq(invocations, LAMBDA r : r.fn = "my_invoke_function" /\ ~r.raised)

\* C9 amended: an execution that completes normally has printed exactly the
\* two result lines when my_invoke_function was not invoked, and exactly
\* three lines when it was: the callback's line, then the two result lines.
C9_TwoLinesPlusCallbackLine ==
    (pc = Eof) =>
        /\ Len(CallbackRuns) <= 1
        /\ Len(stdout) = 2 + Len(CallbackRuns)
        /\ Len(CallbackPrints) = Len(CallbackRuns)
        /\ stdout[Len(stdout) - 1].line = 145
        /\ stdout[Len(stdout)].line = 146
        /\ \A i \in 1..(Len(stdout) - 2) : stdout[i].line = 95

C9_Witness ==
    /\ pc = Eof
    /\ Len(stdout) = 3
    /\ stdout[1].line = 95
    /\ result[1].last_agent = "refund_agent"

\* C10: a run has at most one hand-off: the active agents are main_agent and
\* then at most one of billing_agent, refund_agent; the last-agent line names
\* one of the three agents, and names refund_agent when my_invoke_function was
\* the last hand-off callback invoked.
C10_AtMostOneHandoff ==
    /\ Len(trail) <= 2
    /\ Len(trail) >= 1 => trail[1] = "main_agent"
    /\ Len(trail) = 2 => trail[2] \in {"billing_agent", "refund_agent"}
    /\ Len(SelectSeq(invocations, LAMBDA r : ~r.raised)) <= 1
    /\ \A i \in 1..Len(stdout) :
          stdout[i].line = 146 =>
             /\ stdout[i].agent \in AgentNames
             /\ stdout[i].agent = trail[Len(trail)]
             /\ (invocations # <<>>
                 /\ invocations[Len(invocations)].fn = "my_invoke_function")
                => stdout[i].agent = "refund_agent"

C10_Witness ==
    /\ pc = Eof
    /\ trail = <<"main_agent", "refund_agent">>
    /\ invocations[Len(invocations)].fn = "my_invoke_function"
    /\ stdout[Len(stdout)].agent = "refund_agent"

====
